---- MODULE Spec2Model ----
(***************************************************************************)
(* A model of api/utils.py: the molecule-depiction endpoint mol_view ->    *)
(* get_params -> parse_atom_ids / parse_xenons -> draw_mol.                *)
(*                                                                         *)
(* SMILES text is a sequence of tokens.  An atom token carries its symbol, *)
(* its isotope label and `par`, the 0-based index of the earlier atom it   *)
(* is bonded to (-1 for the first atom): this is the branch structure the  *)
(* parentheses of a SMILES string encode.  The characters '.', 's', 'v',   *)
(* 'g' are tokens of their own.  The modelled fragment of SMILES is the    *)
(* single-component acyclic molecules over C, O, Xe and the wildcard.      *)
(*                                                                         *)
(* Atom indices and bond identifiers are 0-based as in the toolkit; the    *)
(* atom with index i is atoms[i+1] and the bond with identifier b is       *)
(* bonds[b+1].  Each atom carries a history field `uid` that no operation  *)
(* of the program reads: the index the atom had when its molecule was      *)
(* parsed, -1 for a hydrogen added by AddHs, and -(k+1) for the wildcard   *)
(* that replaced the hydrogen of the k-th tuple of atom_indices.           *)
(***************************************************************************)
EXTENDS Integers, Sequences, FiniteSets, TLC

VARIABLES request, pc, smiles, height, width, mol, bond_id_list,
          highlightBondColors, resolved, frame, drawn, response

vars == <<request, pc, smiles, height, width, mol, bond_id_list,
          highlightBondColors, resolved, frame, drawn, response>>

(***************************************************************************)
(* Bounds of the model.                                                    *)
(***************************************************************************)
\* longest SMILES (in tokens) of the marker-atom requests
MaxLen == 3
\* longest raw smiles value (in characters) of the suffix requests
MaxStripLen == 4
\* most 4-tuples in an atom_indices list
MaxTuples == 2
\* largest atom id named in an atom_indices list
MaxAtomId == 3

(***************************************************************************)
(* Program constants.                                                      *)
(***************************************************************************)
\* atomic number of the marker element
XENON == 54
\* atomic number of hydrogen
HYDROGEN == 1
\* the 4-tuple length of parse_atom_ids
list_len == 4
\* the default height and width of draw_mol
DEFAULT_SIZE == 200
\* the isotope label whose colour a single marker atom gets
DEFAULT_ISO == 101

\* Colour components are in tenths: 10 is 1 and 5 is 0.5.
ISO_COLOUR_MAP ==
    (100 :> <<10, 0, 0>>) @@ (101 :> <<0, 10, 0>>) @@ (102 :> <<0, 0, 10>>) @@
    (103 :> <<10, 0, 10>>) @@ (104 :> <<10, 10, 0>>) @@ (105 :> <<0, 10, 10>>) @@
    (106 :> <<5, 5, 5>>) @@ (107 :> <<10, 5, 10>>)

\* The names bound at module level (imports, the table and the functions).
ModuleGlobals ==
    {"ET", "User", "ObjectDoesNotExist", "HttpResponse", "Chem", "AllChem",
     "Draw", "Atom", "re", "DrawingOptions", "rdMolDraw2D", "Token",
     "get_fragments", "canon_input", "ISO_COLOUR_MAP", "get_token",
     "_transparentsvg", "draw_mol", "parse_vectors", "parse_bool",
     "parse_atom_ids", "parse_xenons", "get_params", "mol_view"}

(***************************************************************************)
(* Small helpers.                                                          *)
(***************************************************************************)
Min(S) == CHOOSE x \in S : \A y \in S : x <= y

EmptyDict == [x \in {} |-> <<0, 0, 0>>]

DictSetIfAbsent(d, k, v) ==
    [x \in (DOMAIN d) \cup {k} |-> IF x \in DOMAIN d THEN d[x] ELSE v]

\* d[k] = v of a Python dict
DictSet(d, k, v) == [x \in (DOMAIN d) \cup {k} |-> IF x = k THEN v ELSE d[x]]

(***************************************************************************)
(* Molecules and the toolkit's operations on them.                         *)
(***************************************************************************)
AtomSyms == {"C", "O", "Xe", "*"}

AtomicNum(sym) ==
    CASE sym = "C" -> 6
      [] sym = "O" -> 8
      [] sym = "Xe" -> XENON
      [] OTHER -> 0

SymOf(num) ==
    CASE num = 6 -> "C"
      [] num = 8 -> "O"
      [] num = XENON -> "Xe"
      [] num = HYDROGEN -> "H"
      [] OTHER -> "*"

NoneMol == [ok |-> FALSE, atoms |-> <<>>, bonds |-> <<>>]

NumAtoms(m) == Len(m.atoms)
NumBonds(m) == Len(m.bonds)
AtomIdxs(m) == 0 .. (NumAtoms(m) - 1)
BondIds(m) == 0 .. (NumBonds(m) - 1)
AtomAt(m, idx) == m.atoms[idx + 1]
BondAt(m, b) == m.bonds[b + 1]
BondEnds(m, b) == {BondAt(m, b)[1], BondAt(m, b)[2]}

\* atom.GetBonds(): the identifiers of the atom's bonds, in increasing order
BondsOf(m, idx) == {b \in BondIds(m) : idx \in BondEnds(m, b)}
Degree(m, idx) == Cardinality(BondsOf(m, idx))

\* the history pair of a bond: the uids of its two atoms
BondUids(m, b) == {AtomAt(m, x).uid : x \in BondEnds(m, b)}

\* the bonds an atom of this element may have
MaxDegree(num) ==
    CASE num = 6 -> 4
      [] num = 8 -> 2
      [] num = HYDROGEN -> 1
      [] OTHER -> 8

\* the hydrogens AddHs gives an atom: organic-subset atoms fill their valence
ImplicitHs(num, deg) ==
    CASE num = 6 -> 4 - deg
      [] num = 8 -> 2 - deg
      [] OTHER -> 0

\* whether atom p is atom a or one of its ancestors in the token sequence s
RECURSIVE OnPath(_, _, _)
OnPath(s, a, p) ==
    \/ a = p
    \/ /\ a >= 0
       /\ s[a + 1].par >= 0
       /\ s[a + 1].par < a
       /\ OnPath(s, s[a + 1].par, p)

\* the tokens are atoms written depth first, each bonded to an earlier atom
WellFormed(s) ==
    /\ \A k \in 1 .. Len(s) : s[k].sym \in AtomSyms
    /\ Len(s) > 0 => s[1].par = -1
    /\ \A k \in 2 .. Len(s) : s[k].par >= 0 /\ s[k].par < k - 1
                              /\ OnPath(s, k - 2, s[k].par)

GraphOf(s) ==
    [ok |-> TRUE,
     atoms |-> [k \in 1 .. Len(s) |->
                  [num |-> AtomicNum(s[k].sym), iso |-> s[k].iso, uid |-> k - 1]],
     bonds |-> [k \in 1 .. (Len(s) - 1) |-> <<s[k + 1].par, k>>]]

\* Chem.MolFromSmiles: None for text that does not parse or sanitize.  The
\* empty string parses to the molecule without atoms.
MolFromSmiles(s) ==
    IF ~WellFormed(s) THEN NoneMol
    ELSE LET g == GraphOf(s)
         IN  IF \A i \in AtomIdxs(g) : Degree(g, i) <= MaxDegree(AtomAt(g, i).num)
             THEN g ELSE NoneMol

\* n hydrogens appended to m, bonded to atom idx
RECURSIVE AddHsTo(_, _, _)
AddHsTo(m, idx, n) ==
    IF n <= 0 THEN m
    ELSE AddHsTo([m EXCEPT !.atoms = Append(@, [num |-> HYDROGEN, iso |-> 0, uid |-> -1]),
                           !.bonds = Append(@, <<idx, NumAtoms(m)>>)],
                 idx, n - 1)

RECURSIVE AddHsFrom(_, _, _)
AddHsFrom(orig, m, idx) ==
    IF idx >= NumAtoms(orig) THEN m
    ELSE AddHsFrom(orig,
                   AddHsTo(m, idx, ImplicitHs(AtomAt(orig, idx).num, Degree(orig, idx))),
                   idx + 1)

\* AllChem.AddHs: the implicit hydrogens become atoms, appended after the
\* existing atoms, those of atom 0 first
AddHs(m) == AddHsFrom(m, m, 0)

\* EditableMol.ReplaceAtom(idx, Atom(0)) then GetMol: the atom becomes a
\* wildcard without isotope label; indices and bonds stay
ReplaceAtom(m, idx, uid) ==
    [m EXCEPT !.atoms[idx + 1] = [num |-> 0, iso |-> 0, uid |-> uid]]

\* mol.GetBondBetweenAtoms(a, b)
GetBondBetweenAtoms(m, a, b) ==
    IF a \notin AtomIdxs(m) \/ b \notin AtomIdxs(m)
    THEN [st |-> "raise", id |-> -1]
    ELSE LET hit == {x \in BondIds(m) : BondEnds(m, x) = {a, b}}
         IN  IF hit = {} \/ a = b THEN [st |-> "none", id |-> -1]
             ELSE [st |-> "ok", id |-> Min(hit)]

\* the atoms of m that are not hydrogens
HeavyIdxs(m) == {i \in AtomIdxs(m) : AtomAt(m, i).num # HYDROGEN}

\* position (0-based) of atom index i in the order ord
PosIn(ord, i) == (CHOOSE k \in 1 .. Len(ord) : ord[k] = i) - 1

\* the earlier neighbour of the k-th atom of the order, -1 when there is none
ParentIn(m, ord, k) ==
    LET nb == {j \in 1 .. (k - 1) :
                 \E b \in BondIds(m) : BondEnds(m, b) = {ord[j], ord[k]}}
    IN  IF nb = {} THEN -1 ELSE Min(nb) - 1

\* Chem.MolToSmiles writing the heavy atoms in the order ord
MolToSmiles(m, ord) ==
    [k \in 1 .. Len(ord) |->
        [sym |-> SymOf(AtomAt(m, ord[k]).num),
         iso |-> AtomAt(m, ord[k]).iso,
         par |-> ParentIn(m, ord, k)]]

\* the depth-first orders of the heavy atoms of m that start with prefix
RECURSIVE OrdersFrom(_, _)
OrdersFrom(m, prefix) ==
    IF Len(prefix) = Cardinality(HeavyIdxs(m)) THEN {prefix}
    ELSE UNION {OrdersFrom(m, Append(prefix, x)) :
                  x \in {y \in HeavyIdxs(m) \ {prefix[k] : k \in 1 .. Len(prefix)} :
                           WellFormed(MolToSmiles(m, Append(prefix, y)))}}

\* The atom orders a SMILES of m can have.  Which of them the toolkit's
\* canonical ranking takes is not modelled: every one of them is possible.
Orders(m) == OrdersFrom(m, <<>>)

\* Chem.MolFromSmiles(Chem.MolToSmiles(mol)) along the order ord: explicit
\* hydrogens go back to being implicit, atoms and bonds are renumbered
Rebuild(m, ord) ==
    LET parsed == MolFromSmiles(MolToSmiles(m, ord))
    IN  [parsed EXCEPT !.atoms =
            [k \in DOMAIN parsed.atoms |->
                [parsed.atoms[k] EXCEPT !.uid = AtomAt(m, ord[k]).uid]]]

(***************************************************************************)
(* Request parameters.  A parameter is [has, val]; the value of smiles is  *)
(* SMILES text, the value of a numeric or list parameter is made of field  *)
(* tokens: an integer literal, or a word.                                  *)
(***************************************************************************)
Tok(sym, iso, par) == [sym |-> sym, iso |-> iso, par |-> par]
CharTok(c) == Tok(c, 0, -1)
IntTok(n) == [isint |-> TRUE, int |-> n, txt |-> ""]
WordTok(w) == [isint |-> FALSE, int |-> 0, txt |-> w]

NoneInt == [some |-> FALSE, v |-> 0]
SomeInt(n) == [some |-> TRUE, v |-> n]

\* str.lower() on the words of the model
Lower(w) ==
    CASE w = "True" -> "true"
      [] w = "TRUE" -> "true"
      [] w = "False" -> "false"
      [] w = "T" -> "t"
      [] w = "No" -> "no"
      [] OTHER -> w

\* the text of a field, lower-cased
LowerText(tok) ==
    IF tok.isint
    THEN (IF tok.int = 1 THEN "1" ELSE IF tok.int = 0 THEN "0" ELSE "#")
    ELSE Lower(tok.txt)

parse_bool(tok) ==
    IF LowerText(tok) \in {"yes", "true", "t", "y", "1"}
    THEN [ok |-> TRUE, val |-> TRUE]
    ELSE IF LowerText(tok) \in {"no", "false", "f", "n", "0"}
    THEN [ok |-> TRUE, val |-> FALSE]
    ELSE [ok |-> FALSE, val |-> FALSE]

\* str.rstrip(chars): trailing characters that are in chars are removed
RECURSIVE rstrip(_, _)
rstrip(s, chars) ==
    IF Len(s) > 0 /\ s[Len(s)].sym \in chars
    THEN rstrip(SubSeq(s, 1, Len(s) - 1), chars)
    ELSE s

\* the argument ".svg" of rstrip in mol_view
DotSvg == <<".", "s", "v", "g">>

\* "Xe" in smiles
ContainsXe(s) == \E k \in 1 .. Len(s) : s[k].sym = "Xe"

\* canon_input of the frag package: the canonical SMILES of the parsed
\* molecule; it raises on text that does not parse
canon_input(s) ==
    LET m == MolFromSmiles(s)
    IN  IF ~m.ok THEN {[raised |-> TRUE, val |-> <<>>]}
        ELSE {[raised |-> FALSE, val |-> MolToSmiles(m, ord)] : ord \in Orders(m)}

(***************************************************************************)
(* parse_xenons                                                            *)
(***************************************************************************)
\* the elements of a finite set of integers in increasing order
RECURSIVE Sorted(_)
Sorted(S) == IF S = {} THEN <<>> ELSE <<Min(S)>> \o Sorted(S \ {Min(S)})

XenonColourAlwaysIso(n, iso) ==
    IF iso \in DOMAIN ISO_COLOUR_MAP
    THEN [ok |-> TRUE, colour |-> ISO_COLOUR_MAP[iso]]
    ELSE [ok |-> FALSE, colour |-> <<0, 0, 0>>]

XenonColourAlwaysDefault(n, iso) ==
    [ok |-> TRUE, colour |-> ISO_COLOUR_MAP[DEFAULT_ISO]]

\* the colour of a marker atom's bond, n being len(xenons)
XenonColour(n, iso) ==
    IF n > 1
    THEN (IF iso \in DOMAIN ISO_COLOUR_MAP
          THEN [ok |-> TRUE, colour |-> ISO_COLOUR_MAP[iso]]
          ELSE [ok |-> FALSE, colour |-> <<0, 0, 0>>])
    ELSE [ok |-> TRUE, colour |-> ISO_COLOUR_MAP[DEFAULT_ISO]]

\* the loop over xenons, from its k-th element on; m is mol, acc holds
\* bond_ids, bond_colours and e_mol
RECURSIVE XenonLoop(_, _, _, _)
XenonLoop(m, xenons, k, acc) ==
    IF k > Len(xenons) THEN acc
    ELSE LET xe == xenons[k]
             col == XenonColour(Len(xenons), AtomAt(m, xe).iso)
         IN  IF BondsOf(m, xe) = {} THEN [acc EXCEPT !.exc = "IndexError"]
             ELSE IF ~col.ok THEN [acc EXCEPT !.exc = "KeyError"]
             ELSE LET bond_id == Min(BondsOf(m, xe))
                  IN  XenonLoop(m, xenons, k + 1,
                        [acc EXCEPT
                           !.bond_ids = Append(@, bond_id),
                           !.resolved = Append(@, BondUids(m, bond_id)),
                           !.bond_colours = DictSet(@, bond_id, col.colour),
                           !.mol = ReplaceAtom(@, xe, AtomAt(m, xe).uid)])

parse_xenons(input_smi) ==
    LET m == MolFromSmiles(input_smi)
        start == [exc |-> "", bond_ids |-> <<>>, bond_colours |-> EmptyDict,
                  mol |-> m, resolved |-> <<>>]
    IN  IF ~m.ok THEN [start EXCEPT !.exc = "ArgumentError"]
        ELSE XenonLoop(m, Sorted({i \in AtomIdxs(m) : AtomAt(m, i).num = XENON}),
                       1, start)

(***************************************************************************)
(* parse_atom_ids: the loop runs one iteration per action; frame holds its *)
(* local variables, i being the index of the next field of spl_list.       *)
(* frame.resolved is history: for each recorded bond, its uid pair at the  *)
(* time it was resolved.                                                   *)
(***************************************************************************)
NoFrame ==
    [active |-> FALSE, i |-> 0, atom_ids |-> <<>>, iso |-> 0, bond_ids |-> <<>>,
     bond_colours |-> EmptyDict, mol |-> NoneMol, resolved |-> <<>>]

\* the 1-based number of the tuple field i belongs to
TupleNo(i) == (i \div list_len) + 1

\* the uid of the wildcard that replaces the hydrogen of tuple k
WildcardUid(k) == 0 - (k + 1)

\* atom_remove: the first hydrogen whose index is one of the two atom ids
HydrogensAt(m, a1, a2) ==
    {x \in AtomIdxs(m) : AtomAt(m, x).num = HYDROGEN /\ x \in {a1, a2}}

\* the re-derived atom ids: the ends of the first bond of the first wildcard
WildcardPair(m) ==
    LET wild == {x \in AtomIdxs(m) : AtomAt(m, x).num = 0}
    IN  IF wild = {} \/ \E x \in wild : BondsOf(m, x) = {}
        THEN [ok |-> FALSE, pair |-> <<0, 0>>]
        ELSE [ok |-> TRUE, pair |-> BondAt(m, Min(BondsOf(m, Min(wild))))]

\* lines 178-181: the bond between the two atoms is recorded and coloured
RecordBond(f, m, a1, a2) ==
    IF ~m.ok THEN [exc |-> "AttributeError", frame |-> f]
    ELSE LET bond == GetBondBetweenAtoms(m, a1, a2)
         IN  IF bond.st = "raise" THEN [exc |-> "RuntimeError", frame |-> f]
             ELSE IF bond.st = "none" THEN [exc |-> "AttributeError", frame |-> f]
             ELSE IF f.iso \notin DOMAIN ISO_COLOUR_MAP
             THEN [exc |-> "KeyError", frame |-> f]
             ELSE [exc |-> "",
                   frame |-> [f EXCEPT
                       !.i = @ + 1,
                       !.mol = m,
                       !.bond_ids = Append(@, bond.id),
                       !.resolved = Append(@, BondUids(m, bond.id)),
                       !.bond_colours = DictSet(@, bond.id, ISO_COLOUR_MAP[f.iso]),
                       !.atom_ids = <<>>]]

\* the orders the rebuild of this iteration can take (one dummy order when
\* the iteration rebuilds nothing)
RebuildOrders(f, tok) ==
    LET pb == parse_bool(tok)
    IN  IF f.i % list_len = 3 /\ pb.ok /\ pb.val /\ f.mol.ok /\ Len(f.atom_ids) = 2
        THEN LET m1 == AddHs(f.mol)
                 hs == HydrogensAt(m1, f.atom_ids[1], f.atom_ids[2])
             IN  IF hs = {} THEN {<<>>}
                 ELSE Orders(ReplaceAtom(m1, Min(hs), WildcardUid(TupleNo(f.i))))
        ELSE {<<>>}

\* the iteration for the last field of a tuple (lines 153-181)
TupleEnd(f, tok, ord) ==
    LET pb == parse_bool(tok)
        atom_id_1 == f.atom_ids[1]
        atom_id_2 == f.atom_ids[2]
    IN  IF ~pb.ok THEN [exc |-> "ValueError", frame |-> f]
        ELSE IF ~pb.val THEN RecordBond(f, f.mol, atom_id_1, atom_id_2)
        ELSE IF ~f.mol.ok THEN [exc |-> "ArgumentError", frame |-> f]
        ELSE LET m1 == AddHs(f.mol)
                 hs == HydrogensAt(m1, atom_id_1, atom_id_2)
             IN  IF hs = {} THEN [exc |-> "IndexError", frame |-> f]
                 ELSE LET m2 == ReplaceAtom(m1, Min(hs), WildcardUid(TupleNo(f.i)))
                          m3 == Rebuild(m2, ord)
                          wp == WildcardPair(m3)
                      IN  IF ~m3.ok THEN [exc |-> "AttributeError", frame |-> f]
                          ELSE IF ~wp.ok THEN [exc |-> "IndexError", frame |-> f]
                          ELSE RecordBond(f, m3, wp.pair[1], wp.pair[2])

\* one iteration of the loop over spl_list
LoopBody(f, tok, ord) ==
    LET pos == f.i % list_len
    IN  IF pos \in {0, 1}
        THEN (IF tok.isint
              THEN [exc |-> "", frame |-> [f EXCEPT !.i = @ + 1,
                                                    !.atom_ids = Append(@, tok.int)]]
              ELSE [exc |-> "ValueError", frame |-> f])
        ELSE IF pos = 2
        THEN (IF tok.isint
              THEN [exc |-> "", frame |-> [f EXCEPT !.i = @ + 1, !.iso = tok.int]]
              ELSE [exc |-> "ValueError", frame |-> f])
        ELSE TupleEnd(f, tok, ord)

(***************************************************************************)
(* draw_mol                                                                *)
(***************************************************************************)
ResolveSizeNoneOnly(v) == IF ~v.some THEN DEFAULT_SIZE ELSE v.v

\* `if not height: height = 200`
ResolveSize(v) == IF ~v.some \/ v.v = 0 THEN DEFAULT_SIZE ELSE v.v

NotDrawn ==
    [called |-> FALSE, sized |-> FALSE, height |-> 0, width |-> 0,
     canvas_width |-> 0, canvas_height |-> 0,
     highlightBonds |-> <<>>, bondcolors |-> EmptyDict, mol |-> NoneMol]

HttpResponse(body, content_type) ==
    [kind |-> "HttpResponse", content_type |-> content_type, body |-> body,
     exc |-> "", at |-> ""]

StrValue(body) ==
    [kind |-> "str", content_type |-> "", body |-> body, exc |-> "", at |-> ""]

\* the exception exc, raised in the function `at`
Raised(exc, at) ==
    [kind |-> "exception", content_type |-> "", body |-> "", exc |-> exc, at |-> at]

NoResponse ==
    [kind |-> "none", content_type |-> "", body |-> "", exc |-> "", at |-> ""]

\* draw_mol: ret is what it returns (or raises), info what it did on the way
draw_mol(smi, h, w, img_type, highlightBonds, bondcolors, m_arg) ==
    LET m == IF ~m_arg.ok THEN MolFromSmiles(smi) ELSE m_arg
        args == [NotDrawn EXCEPT !.called = TRUE, !.highlightBonds = highlightBonds,
                                 !.bondcolors = bondcolors, !.mol = m_arg]
        sized == [args EXCEPT !.sized = TRUE, !.height = ResolveSize(h),
                              !.width = ResolveSize(w)]
    IN  IF ~m.ok THEN [ret |-> StrValue("None Mol"), info |-> args]
        ELSE IF img_type.has /\ img_type.val = "png"
        THEN (IF "options" \in ModuleGlobals
              THEN [ret |-> HttpResponse("png", "image/png"), info |-> sized]
              ELSE [ret |-> Raised("NameError", "draw_mol"), info |-> sized])
        ELSE \* MolDraw2DSVG(width, height) is called as MolDraw2DSVG(height, width)
             [ret |-> StrValue("svg"),
              info |-> [sized EXCEPT !.canvas_width = sized.height,
                                     !.canvas_height = sized.width]]


(***************************************************************************)
(* The requests of the model.                                              *)
(***************************************************************************)
Range(f) == {f[k] : k \in DOMAIN f}

Absent(v) == [has |-> FALSE, val |-> v]
Present(v) == [has |-> TRUE, val |-> v]

Request(smi, ai, h, w, img) ==
    [smiles |-> smi, atom_indices |-> ai, height |-> h, width |-> w, img_type |-> img]

\* an unbranched SMILES of the atoms (symbol, isotope) in syms
Chain(syms) == [k \in 1 .. Len(syms) |-> Tok(syms[k][1], syms[k][2], k - 2)]

C_ == <<"C", 0>>
O_ == <<"O", 0>>

\* text that is no SMILES: an unbalanced parenthesis
BadSmiles == <<CharTok("(")>>

\* marker-atom requests: every SMILES of up to MaxLen atoms over carbon and
\* xenon without label, with the labels 100 and 101, and with a label that is
\* no key of the table
MarkerAtoms == {C_, <<"Xe", 0>>, <<"Xe", 100>>, <<"Xe", 101>>, <<"Xe", 108>>}

\* the SMILES of n marker atoms: one more atom on a SMILES of n - 1
RECURSIVE MarkerSmilesOfLen(_)
MarkerSmilesOfLen(n) ==
    IF n = 0 THEN {<<>>}
    ELSE {s \in {Append(r, Tok(a[1], a[2], p)) :
                    r \in MarkerSmilesOfLen(n - 1), a \in MarkerAtoms,
                    p \in -1 .. (n - 2)}
             : WellFormed(s)}

MarkerSmiles == UNION {MarkerSmilesOfLen(n) : n \in 1 .. MaxLen}

MarkerRequests ==
    {Request(Present(s), Absent(<<>>), Absent(IntTok(0)), Absent(IntTok(0)), Absent(""))
        : s \in MarkerSmiles}

\* atom-index requests
Tuple(a, b, iso, flag) == <<IntTok(a), IntTok(b), IntTok(iso), flag>>

TupleSet ==
    {Tuple(0, b, 101, WordTok("True")) : b \in 2 .. MaxAtomId}
    \cup {Tuple(0, 2, 102, IntTok(1)),
          Tuple(0, 1, 100, WordTok("False")), Tuple(1, 0, 104, IntTok(0)),
          Tuple(1, 2, 104, WordTok("False"))}

RECURSIVE TupleLists(_)
TupleLists(n) ==
    IF n = 0 THEN {<<>>}
    ELSE {<<>>} \cup {t \o l : t \in TupleSet, l \in TupleLists(n - 1)}

\* the tuples of the list l that ask for hydrogens
HydrogenTuples(l) ==
    {k \in 1 .. (Len(l) \div list_len) : parse_bool(l[list_len * k]).val}

\* lists that are not made of well-formed tuples: the empty string (whose
\* split is [""]), an incomplete tuple, an isotope that is no key of the
\* table, a flag that is no boolean, an atom id that is no integer
MalformedLists ==
    {<<WordTok("")>>, <<IntTok(0), IntTok(1)>>,
     Tuple(0, 1, 100, WordTok("False")) \o <<IntTok(0), IntTok(1), IntTok(104)>>,
     Tuple(0, 1, 999, WordTok("No")),
     Tuple(0, 1, 100, WordTok("maybe")),
     Tuple(0, 1, 100, WordTok("False")) \o Tuple(0, 1, 100, WordTok("TRUE")),
     <<WordTok("x"), IntTok(1), IntTok(100), WordTok("False")>>}

\* The lists of up to MaxTuples tuples, at most two of them asking for
\* hydrogens, and the malformed lists.  A list of fields is never empty.
AtomIndexLists ==
    {l \in TupleLists(MaxTuples) \ {<<>>} : Cardinality(HydrogenTuples(l)) <= 2}
    \cup MalformedLists

BaseSmiles == {Chain(<<C_, O_>>), Chain(<<C_, C_, O_>>), BadSmiles}

IndexRequests ==
    {Request(Present(s), Present(l), Absent(IntTok(0)), Absent(IntTok(0)), Absent(""))
        : s \in BaseSmiles, l \in AtomIndexLists}

\* requests with atom_indices and a marker atom
MarkedIndexRequests ==
    {Request(Present(Chain(<<C_, <<"Xe", 100>>>>)), Present(l),
             Absent(IntTok(0)), Absent(IntTok(0)), Absent(""))
        : l \in {<<IntTok(0), IntTok(1)>>,
                 Tuple(0, 1, 100, WordTok("False")),
                 Tuple(0, 2, 101, WordTok("True")),
                 Tuple(0, 1, 104, WordTok("False")) \o Tuple(0, 3, 101, WordTok("T"))}}

\* size and format requests
SizeParams ==
    {Absent(IntTok(0)), Present(IntTok(0)), Present(IntTok(100)), Present(IntTok(-7)),
     Present(WordTok("abc"))}

SizeRequests ==
    {Request(Present(s), Absent(<<>>), h, w, img)
        : s \in {Chain(<<C_, O_>>), Chain(<<C_, <<"Xe", 0>>>>), BadSmiles},
          h \in SizeParams, w \in SizeParams,
          img \in {Absent(""), Present("png"), Present("svg")}}

\* suffix requests: every raw value of up to MaxStripLen characters over
\* 'C' and the characters of ".svg"
StripChars == {"C", ".", "s", "v", "g"}

StripSmiles ==
    UNION {{Chain([k \in 1 .. n |-> <<w[k], 0>>]) : w \in [1 .. n -> StripChars]}
              : n \in 0 .. MaxStripLen}

StripRequests ==
    {Request(Present(s), Absent(<<>>), Absent(IntTok(0)), Absent(IntTok(0)), Absent(""))
        : s \in StripSmiles}

NoSmilesRequest ==
    Request(Absent(<<>>), Absent(<<>>), Absent(IntTok(0)), Absent(IntTok(0)), Absent(""))

Requests ==
    MarkerRequests \cup IndexRequests \cup MarkedIndexRequests \cup SizeRequests
    \cup StripRequests
    \cup {NoSmilesRequest}

(***************************************************************************)
(* The request pipeline.                                                   *)
(***************************************************************************)
Init ==
    /\ request \in Requests
    /\ pc = "mol_view"
    /\ smiles = <<>>
    /\ height = NoneInt
    /\ width = NoneInt
    /\ mol = NoneMol
    /\ bond_id_list = <<>>
    /\ highlightBondColors = EmptyDict
    /\ resolved = <<>>
    /\ frame = NoFrame
    /\ drawn = NotDrawn
    /\ response = NoResponse

\* the request ends with an exception reaching the caller
Raise(exc, at) ==
    /\ response' = Raised(exc, at)
    /\ pc' = "done"

\* mol_view
MolView ==
    /\ pc = "mol_view"
    /\ IF request.smiles.has
       THEN /\ smiles' = rstrip(request.smiles.val, Range(DotSvg))
            /\ pc' = "get_params"
            /\ UNCHANGED response
       ELSE /\ response' = HttpResponse("Please insert SMILES", "text/html")
            /\ pc' = "done"
            /\ UNCHANGED smiles
    /\ UNCHANGED <<request, height, width, mol, bond_id_list, highlightBondColors,
                   resolved, frame, drawn>>

\* get_params up to the call of parse_atom_ids (lines 203-217)
GetParams ==
    /\ pc = "get_params"
    /\ \E c \in canon_input(smiles) :
         /\ smiles' = IF c.raised THEN <<>> ELSE c.val
         /\ IF \/ request.height.has /\ ~request.height.val.isint
               \/ request.width.has /\ ~request.width.val.isint
            THEN /\ Raise("ValueError", "get_params")
                 /\ UNCHANGED <<height, width, mol, frame>>
            ELSE /\ height' = IF request.height.has
                              THEN SomeInt(request.height.val.int) ELSE NoneInt
                 /\ width' = IF request.width.has
                             THEN SomeInt(request.width.val.int) ELSE NoneInt
                 /\ IF request.atom_indices.has
                    THEN /\ mol' = MolFromSmiles(smiles')
                         /\ frame' = [NoFrame EXCEPT !.active = TRUE,
                                                     !.mol = MolFromSmiles(smiles')]
                         /\ pc' = "parse_atom_ids"
                    ELSE /\ pc' = "xenons"
                         /\ UNCHANGED <<mol, frame>>
                 /\ UNCHANGED response
    /\ UNCHANGED <<request, bond_id_list, highlightBondColors, resolved, drawn>>

\* one iteration of the loop of parse_atom_ids
ParseAtomIdsIter ==
    /\ pc = "parse_atom_ids"
    /\ frame.i < Len(request.atom_indices.val)
    /\ LET tok == request.atom_indices.val[frame.i + 1]
       IN  \E ord \in RebuildOrders(frame, tok) :
             LET r == LoopBody(frame, tok, ord)
             IN  IF r.exc # ""
                 THEN Raise(r.exc, "parse_atom_ids") /\ UNCHANGED frame
                 ELSE frame' = r.frame /\ UNCHANGED <<pc, response>>
    /\ UNCHANGED <<request, smiles, height, width, mol, bond_id_list,
                   highlightBondColors, resolved, drawn>>

\* parse_atom_ids returns and get_params takes its results (line 218)
ParseAtomIdsReturn ==
    /\ pc = "parse_atom_ids"
    /\ frame.i = Len(request.atom_indices.val)
    /\ bond_id_list' = frame.bond_ids
    /\ highlightBondColors' = frame.bond_colours
    /\ mol' = frame.mol
    /\ resolved' = frame.resolved
    /\ pc' = "xenons"
    /\ UNCHANGED <<request, smiles, height, width, frame, drawn, response>>

\* lines 221-222
Xenons ==
    /\ pc = "xenons"
    /\ IF ContainsXe(smiles)
       THEN LET r == parse_xenons(smiles)
            IN  IF r.exc # ""
                THEN /\ Raise(r.exc, "parse_xenons")
                     /\ UNCHANGED <<bond_id_list, highlightBondColors, mol, resolved>>
                ELSE /\ bond_id_list' = r.bond_ids
                     /\ highlightBondColors' = r.bond_colours
                     /\ mol' = r.mol
                     /\ resolved' = r.resolved
                     /\ pc' = "draw_mol"
                     /\ UNCHANGED response
       ELSE /\ pc' = "draw_mol"
            /\ UNCHANGED <<bond_id_list, highlightBondColors, mol, resolved, response>>
    /\ UNCHANGED <<request, smiles, height, width, frame, drawn>>

\* lines 223-235: draw_mol and the response
DrawMol ==
    /\ pc = "draw_mol"
    /\ LET d == draw_mol(smiles, height, width, request.img_type, bond_id_list,
                         highlightBondColors, mol)
       IN  /\ drawn' = d.info
           /\ response' = IF d.ret.kind \in {"HttpResponse", "exception"}
                          THEN d.ret
                          ELSE HttpResponse(d.ret.body, "text/html")
    /\ pc' = "done"
    /\ UNCHANGED <<request, smiles, height, width, mol, bond_id_list,
                   highlightBondColors, resolved, frame>>

Next ==
    \/ MolView
    \/ GetParams
    \/ ParseAtomIdsIter
    \/ ParseAtomIdsReturn
    \/ Xenons
    \/ DrawMol

Spec == Init /\ [][Next]_vars
(***************************************************************************)
(* The claims.                                                             *)
(***************************************************************************)
\* the fields of the request's atom_indices list
spl_list == request.atom_indices.val

\* the k-th (1-based) 4-tuple of atom_indices
TupleAt(k) == SubSeq(spl_list, list_len * (k - 1) + 1, list_len * k)

\* the raw value v ends with the four characters ".svg"
EndsWithDotSvg(v) ==
    /\ Len(v) >= Len(DotSvg)
    /\ \A k \in 1 .. Len(DotSvg) : v[Len(v) - Len(DotSvg) + k].sym = DotSvg[k]

\* v with one trailing ".svg" removed
SuffixRemoved(v) ==
    IF EndsWithDotSvg(v) THEN SubSeq(v, 1, Len(v) - Len(DotSvg)) ELSE v

\* C1: the two highlight strategies are mutually exclusive: with atom_indices
\* present, the bond list, colour mapping and molecule handed to draw_mol are
\* those parse_atom_ids returned; parse_xenons' are handed over only when
\* atom_indices is absent and the SMILES contains "Xe"; otherwise the bond
\* list and the colour mapping are empty and no molecule is passed.
C1_StrategiesExclusive ==
    drawn.called =>
        IF request.atom_indices.has
        THEN /\ drawn.highlightBonds = frame.bond_ids
             /\ drawn.bondcolors = frame.bond_colours
             /\ drawn.mol = frame.mol
        ELSE IF ContainsXe(smiles)
        THEN /\ drawn.highlightBonds = parse_xenons(smiles).bond_ids
             /\ drawn.bondcolors = parse_xenons(smiles).bond_colours
             /\ drawn.mol = parse_xenons(smiles).mol
        ELSE /\ drawn.highlightBonds = <<>>
             /\ drawn.bondcolors = EmptyDict
             /\ drawn.mol = NoneMol

\* the number of complete 4-tuples of atom_indices
NumTuples == Len(spl_list) \div list_len

\* atom_indices is made of complete tuples of two integers, an isotope label
\* of the table and a flag that parses
WellFormedIndices ==
    /\ Len(spl_list) % list_len = 0
    /\ \A k \in 1 .. NumTuples :
          /\ TupleAt(k)[1].isint /\ TupleAt(k)[2].isint /\ TupleAt(k)[3].isint
          /\ TupleAt(k)[3].int \in DOMAIN ISO_COLOUR_MAP
          /\ parse_bool(TupleAt(k)[list_len]).ok

\* C2: a request whose smiles value is unparsable (as sent and with the
\* suffix removed) ends in an HTTP response whatever the other parameters
\* are, atom_indices included; no exception reaches the caller.  Stated for
\* the requests whose height and width are absent or integers, whose
\* atom_indices, when present, is well formed, and whose img_type is not
\* "png".
C2_InvalidSmilesNeverRaises ==
    ( /\ pc = "done"
      /\ request.smiles.has
      /\ ~MolFromSmiles(request.smiles.val).ok
      /\ ~MolFromSmiles(SuffixRemoved(request.smiles.val)).ok
      /\ request.height.has => request.height.val.isint
      /\ request.width.has => request.width.val.isint
      /\ request.atom_indices.has => WellFormedIndices
      /\ request.img_type # Present("png") )
    => response.kind = "HttpResponse"

\* C3: with img_type "png" and a molecule that parses, draw_mol does not raise
\* and get_params returns its image/png response.
C3_PngResponse ==
    ( /\ pc = "done"
      /\ request.img_type = Present("png")
      /\ drawn.sized )
    => response = HttpResponse("png", "image/png")

\* C4: the SMILES mol_view passes to get_params is the smiles value with one
\* trailing ".svg" removed when it ends with ".svg", and the value itself
\* otherwise.
C4_OnlySuffixStripped ==
    pc = "get_params" => smiles = SuffixRemoved(request.smiles.val)

\* C5: every element of the bond list and every key of the colour mapping
\* handed to draw_mol is a bond identifier of the molecule handed over in the
\* same call, and denotes in it the bond it was resolved for.
C5_HighlightsDenoteTheirBonds ==
    drawn.called =>
        /\ \A k \in 1 .. Len(drawn.highlightBonds) :
              /\ drawn.highlightBonds[k] \in BondIds(drawn.mol)
              /\ BondUids(drawn.mol, drawn.highlightBonds[k]) = resolved[k]
        /\ DOMAIN drawn.bondcolors \subseteq BondIds(drawn.mol)

\* C10: for every tuple whose add-hydrogens flag is true, the bond recorded
\* for the tuple is the bond of the wildcard that replaced this tuple's
\* hydrogen, not that of an earlier tuple's wildcard.
C10_OwnWildcardRederived ==
    frame.active =>
        \A k \in 1 .. Len(frame.bond_ids) :
            parse_bool(TupleAt(k)[list_len]).val
                => WildcardUid(k) \in frame.resolved[k]
\* parse_xenons has been called on smiles and has returned
XenonsReturned == pc = "draw_mol" /\ ContainsXe(smiles)

\* parse_xenons has been called on smiles and has raised
XenonsRaised == pc = "done" /\ response.at = "parse_xenons"

\* the marker atoms of the SMILES parse_xenons is called on, in atom order
MarkerIdxs == Sorted({i \in AtomIdxs(MolFromSmiles(smiles)) :
                         AtomAt(MolFromSmiles(smiles), i).num = 54})

MarkerIso(k) == AtomAt(MolFromSmiles(smiles), MarkerIdxs[k]).iso

MarkerBonds(k) == BondsOf(MolFromSmiles(smiles), MarkerIdxs[k])

\* exactly two marker atoms, with distinct isotope labels of the table
TwoLabelledMarkers ==
    /\ Len(MarkerIdxs) = 2
    /\ MarkerIso(1) # MarkerIso(2)
    /\ {MarkerIso(1), MarkerIso(2)} \subseteq DOMAIN ISO_COLOUR_MAP

WildcardAt(m0, m, x) ==
    /\ m.ok
    /\ NumAtoms(m) = NumAtoms(m0)
    /\ m.bonds = m0.bonds
    /\ AtomAt(m, x).num = 0
    /\ \A i \in AtomIdxs(m0) \ {x} : AtomAt(m, i) = AtomAt(m0, i)

\* C7 as claimed: for every SMILES with exactly one marker atom, whatever its
\* isotope label, parse_xenons returns exactly one bond identifier, that of a
\* bond of the marker atom, mapped to (0, 1, 0), and the molecule with the
\* marker atom replaced by a wildcard at the same index.
C7_OneMarkerDefaultColour ==
    ((XenonsReturned \/ XenonsRaised) /\ Len(MarkerIdxs) = 1) =>
        /\ XenonsReturned
        /\ Len(bond_id_list) = 1
        /\ bond_id_list[1] \in MarkerBonds(1)
        /\ highlightBondColors = (bond_id_list[1] :> <<0, 10, 0>>)
        /\ WildcardAt(MolFromSmiles(smiles), mol, MarkerIdxs[1])

\* C7 as amended: the same, for the SMILES whose marker atom has a bond; the
\* identifier returned is that of the marker atom's first bond.
C7_OneBondedMarker ==
    ( /\ XenonsReturned \/ XenonsRaised
      /\ Len(MarkerIdxs) = 1
      /\ MarkerBonds(1) # {} ) =>
        /\ XenonsReturned
        /\ bond_id_list = <<Min(MarkerBonds(1))>>
        /\ highlightBondColors = (bond_id_list[1] :> <<0, 10, 0>>)
        /\ WildcardAt(MolFromSmiles(smiles), mol, MarkerIdxs[1])

C7_Witness ==
    /\ XenonsReturned
    /\ Len(MarkerIdxs) = 1
    /\ MarkerIso(1) \notin DOMAIN ISO_COLOUR_MAP
    /\ MarkerIso(1) # 0
    /\ Len(bond_id_list) = 1

\* the loop of parse_atom_ids has run to its end
LoopDone == pc = "parse_atom_ids" /\ frame.i = Len(spl_list)

LoopRaised == pc = "done" /\ response.at = "parse_atom_ids"

\* the two atom ids of the k-th tuple
TupleAtoms(k) == {TupleAt(k)[1].int, TupleAt(k)[2].int}

\* atoms a and b of the input molecule are bonded
Bonded(m, ab) == m.ok /\ \E b \in BondIds(m) : BondEnds(m, b) = ab

\* atom_indices is n >= 1 complete tuples, every flag parsing to false, every
\* isotope a key of the table, every atom pair bonded in the input molecule
PlainTuples ==
    /\ request.atom_indices.has
    /\ NumTuples >= 1
    /\ WellFormedIndices
    /\ \A k \in 1 .. NumTuples :
          /\ ~parse_bool(TupleAt(k)[list_len]).val
          /\ Cardinality(TupleAtoms(k)) = 2
          /\ Bonded(mol, TupleAtoms(k))

\* the bond list holds, in order, the bonds of the tuples' atom pairs, and
\* the molecule is the input molecule
PlainBondList ==
    /\ LoopDone
    /\ Len(frame.bond_ids) = NumTuples
    /\ \A k \in 1 .. NumTuples :
          /\ frame.bond_ids[k] \in BondIds(mol)
          /\ BondEnds(mol, frame.bond_ids[k]) = TupleAtoms(k)
    /\ DOMAIN frame.bond_colours = Range(frame.bond_ids)
    /\ frame.mol = mol
    /\ spl_list = Tuple(1, 2, 104, WordTok("False"))
          => frame.bond_colours = (frame.bond_ids[1] :> <<10, 10, 0>>)

\* C8 as claimed: for n complete tuples with false flags, isotopes of the
\* table and bonded atom pairs, parse_atom_ids returns the n bonds of the
\* tuples in order, the colour mapping sends each of them to the colour of
\* its tuple's isotope, and the molecule is unchanged.
C8_EachBondItsTupleColour ==
    ((LoopDone \/ LoopRaised) /\ PlainTuples) =>
        /\ PlainBondList
        /\ \A k \in 1 .. NumTuples :
              frame.bond_colours[frame.bond_ids[k]] = ISO_COLOUR_MAP[TupleAt(k)[3].int]

\* the last tuple that names the same atom pair as the k-th
LastNaming(k) ==
    CHOOSE j \in k .. NumTuples :
        /\ TupleAtoms(j) = TupleAtoms(k)
        /\ \A l \in (j + 1) .. NumTuples : TupleAtoms(l) # TupleAtoms(k)

\* C8 as amended: the same, the colour mapping sending each bond to the colour
\* of the isotope of the last tuple that names the bond.
C8_BondLastTupleColour ==
    ((LoopDone \/ LoopRaised) /\ PlainTuples) =>
        /\ PlainBondList
        /\ \A k \in 1 .. NumTuples :
              frame.bond_colours[frame.bond_ids[k]]
                  = ISO_COLOUR_MAP[TupleAt(LastNaming(k))[3].int]

C8_Witness ==
    /\ LoopDone
    /\ PlainTuples
    /\ NumTuples = 2
    /\ TupleAtoms(1) = TupleAtoms(2)
    /\ TupleAt(1)[3].int # TupleAt(2)[3].int
    /\ Len(frame.bond_ids) = 2

\* the size draw_mol is claimed to use for a request parameter
ClaimedSize(param) ==
    IF ~param.has \/ param.val.int = 0 THEN 200 ELSE param.val.int

\* C9: whenever draw_mol draws a parsable molecule, an absent or zero height
\* resolves to 200 and an absent or zero width resolves to 200, each on its
\* own, and a non-zero value is kept; get_params passes None for each the
\* request does not carry, so a request without them is drawn at 200 by 200.
C9_SizeDefaults ==
    drawn.sized =>
        /\ drawn.height = ClaimedSize(request.height)
        /\ drawn.width = ClaimedSize(request.width)
        /\ ~request.height.has => height = NoneInt
        /\ ~request.width.has => width = NoneInt
        /\ (~request.height.has /\ ~request.width.has /\ response.body = "svg")
              => drawn.canvas_width = 200 /\ drawn.canvas_height = 200

C9_Witness ==
    /\ drawn.sized
    /\ request.height = Present(IntTok(0))
    /\ request.width = Present(IntTok(100))
    /\ drawn.height = 200
    /\ drawn.width = 100
====
